---- MODULE Spec2Model ----
(***************************************************************************)
(* Span-tree reconstruction (pydantic_evals/otel/span_tree.py) and the     *)
(* context-scoped in-memory span exporter                                  *)
(* (pydantic_evals/context_in_memory_span_exporter.py).                    *)
(***************************************************************************)
EXTENDS Integers, Sequences, FiniteSets, TLC

VARIABLES
    heap,          \* SpanNode objects by address (1..Len(heap)), in allocation order
    nodes_by_id,   \* SpanTree.nodes_by_id: insertion-ordered dict, a sequence of [k, v]
    roots,         \* SpanTree.roots: sequence of node addresses
    raised,        \* TRUE iff the last add_spans call ended in an exception
    supplied,      \* history: every record handed to add_spans so far, in order
    calls,         \* history: number of add_spans calls made on this tree
    \* --- SpanNode.matches, on one node
    node_name,        \* the node's name
    node_attributes,  \* the span's attributes: <<>> for None, else <<dict>>
    arg_name,         \* argument name: <<>> for None, else <<name>>
    arg_attributes,   \* argument attributes: <<>> for None, else <<dict>>
    match_result,     \* <<>> before the call, then <<returned boolean>>
    \* --- context_in_memory_span_exporter: one exporter, several threads of control
    ctxvar,           \* value of _EXPORTER_CONTEXT_ID in each thread of control's context
    pc,               \* position of each thread of control
    context_id,       \* context_subtree_spans: the local context_id
    token,            \* _set_exporter_context_id: the value the token restores
    result,           \* context_subtree_spans: the local result
    yielded,          \* context_subtree_spans: the list `spans` handed to the block
    finished_spans,   \* exporter._finished_spans: insertion-ordered dict of sequences
    stopped,          \* exporter._stopped
    lock,             \* exporter._lock: the holding thread, or NoThread
    exp_arg,          \* export: the argument `spans` of the call in progress
    exp_ret,          \* export: what the thread's last call returned
    n_exports,        \* number of export calls each thread has made
    next_uuid,        \* the next fresh value of uuid.uuid4()
    succeeded,        \* history: the spans handed to an export call that returned SUCCESS
    ret_pc,           \* export: the position the thread's call in progress returns to
    at_exit,          \* history: the spans exported under a scope when its block ended
    \* --- _add_context_span_exporter: the entry of context_subtree_spans
    a_pc,             \* position of each thread of control in the entry
    provider_ok,      \* the global tracer provider has an add_span_processor method
    cache,            \* the cache of functools.cache: <<>> or <<the cached exporter>>
    n_created,        \* number of _ContextInMemorySpanExporter objects created
    processors,       \* the exporters registered with the tracer provider, in order
    a_local,          \* _add_context_span_exporter: the local `exporter`
    a_exporter,       \* context_subtree_spans: the local `exporter`
    a_entries,        \* history: number of context_subtree_spans entries of each thread
    a_raised,         \* history: number of entries of each thread that raised TypeError
    \* --- one query on a built tree
    q_pc,             \* "idle" before the call, "loop" inside its loop, "done" on return
    q_kind,           \* the method called
    q_self,           \* the node the method is called on (None for a SpanTree method)
    q_pred,           \* the predicate: the set of span ids of the nodes it accepts
    q_stack,          \* descendant and tree queries: the local `stack`
    q_node,           \* ancestor queries: the local `node` (None at the end of the chain)
    q_found,          \* find_*: the local `found` / `result`, returned at the end
    q_ret,            \* first_*: the node returned, or None
    q_seen,           \* history: going down, the popped nodes whose descendants are still
                      \* being worked through, each as <<node, length of the stack below
                      \* it>>; going up, the nodes the walk has been at, each as <<node>>
    q_repeat,         \* history: the loop has come to a node of q_seen again
    \* --- context_subtree_spans blocks nested on one thread of control
    frames,           \* the active blocks, outermost first: context_id, token, spans
    closed            \* history: the blocks that have ended, in the order they ended

treeVars == <<heap, nodes_by_id, roots, raised, supplied, calls>>

matchVars == <<node_name, node_attributes, arg_name, arg_attributes, match_result>>

colVars ==
    <<ctxvar, pc, context_id, token, result, yielded, finished_spans, stopped, lock,
      exp_arg, exp_ret, n_exports, next_uuid, succeeded, ret_pc, at_exit>>

attachVars ==
    <<a_pc, provider_ok, cache, n_created, processors, a_local, a_exporter, a_entries,
      a_raised>>

queryVars ==
    <<q_pc, q_kind, q_self, q_pred, q_stack, q_node, q_found, q_ret, q_seen, q_repeat>>

nestVars == <<frames, closed>>

vars == <<treeVars, matchVars, colVars, attachVars, queryVars, nestVars>>

\* Python's None, for optional integers (ids and times are never negative).
None == -1

----------------------------------------------------------------------------
(* Bounds and input domains *)

\* Total number of records handed to one tree.
MaxLen == 3
\* Number of context_subtree_spans entries one thread of control makes.
MaxEntries == 2
\* Number of export calls made in all, by all threads of control together.
MaxExports == 4
\* Total number of records handed, by all its add_spans calls, to a tree that is
\* then queried.
MaxSupplied == 4
SpanIds == {1, 2, 3}
\* A parent id names a span that may or may not be part of the supplied list.
ParentIds == {None, 1, 2}
\* Nanoseconds since the epoch; 0 and 400 fall into the same microsecond.
StartTimes == {None, 0, 400, 1000}

\* Span 1 may be parentless, its own parent or the child of 2; span 2 parentless
\* or the child of 1; span 3 the child of 1 or of 2.
Records ==
    {r \in [span_id : SpanIds, parent_id : ParentIds, start_time : StartTimes] :
        /\ r.span_id = 2 => r.parent_id /= 2
        /\ r.span_id = 3 => r.parent_id /= None}

SeqsUpTo(S, n) == UNION {[1..k -> S] : k \in 1..n}

----------------------------------------------------------------------------
(* Insertion-ordered dict (Python dict) as a sequence of [k, v] entries *)

DictHas(d, k) == \E i \in 1..Len(d) : d[i].k = k

DictGet(d, k) ==
    IF DictHas(d, k) THEN d[CHOOSE i \in 1..Len(d) : d[i].k = k].v ELSE None

DictSetKeepFirst(d, k, v) ==
    IF DictHas(d, k) THEN d ELSE Append(d, [k |-> k, v |-> v])

\* d[k] = v: an existing key keeps its position, a new key goes last.
DictSet(d, k, v) ==
    IF DictHas(d, k)
    THEN [i \in 1..Len(d) |-> IF d[i].k = k THEN [k |-> k, v |-> v] ELSE d[i]]
    ELSE Append(d, [k |-> k, v |-> v])

DictKeys(d) == [i \in 1..Len(d) |-> d[i].k]

DictValues(d) == [i \in 1..Len(d) |-> d[i].v]

----------------------------------------------------------------------------
(* SpanNode *)

\* SpanNode.__init__
SpanNode(span) == [span |-> span, parent |-> None, children_by_id |-> <<>>]

\* datetime.fromtimestamp(ns / 1e9, tz=utc) as microseconds since the epoch: a
\* datetime has microsecond resolution, the fraction is rounded half to even.
Micros(ns) ==
    LET q == ns \div 1000
        r == ns % 1000
    IN  IF r < 500 THEN q
        ELSE IF r > 500 THEN q + 1
        ELSE IF q % 2 = 0 THEN q ELSE q + 1

\* SpanNode.start_timestamp: None, or a timezone-aware datetime.
start_timestamp(node) ==
    IF node.span.start_time = None THEN None ELSE Micros(node.span.start_time)

\* SpanNode.children
children(h, a) == DictValues(h[a].children_by_id)

add_child_no_backref(h, p, c) ==
    [h EXCEPT ![p].children_by_id = DictSet(@, h[c].span.span_id, c)]

\* SpanNode.add_child, on the heap: p.children_by_id[c.span_id] = c; c.parent = p.
\* (p = c when a record names itself as parent.)
add_child(h, p, c) ==
    LET h1 == [h EXCEPT ![p].children_by_id = DictSet(@, h[c].span.span_id, c)]
    IN  [h1 EXCEPT ![c].parent = p]

----------------------------------------------------------------------------
(* SpanTree *)

\* The sort key `node.start_timestamp or datetime.min`: an aware datetime
\* (microseconds since the epoch) or the naive datetime.min.
SortKey(node) ==
    IF start_timestamp(node) = None
    THEN [aware |-> FALSE, us |-> 0]
    ELSE [aware |-> TRUE, us |-> start_timestamp(node)]

\* list.sort orders its keys with `<`, and `<` between a naive and an aware
\* datetime raises TypeError. A sort of two or more keys compares across the
\* two kinds as soon as both are present.
SortRaises(h, addrs) ==
    \E i, j \in 1..Len(addrs) :
        SortKey(h[addrs[i]]).aware /= SortKey(h[addrs[j]]).aware

\* Position of x in a sorted list: after every element whose key is <= its own.
RECURSIVE InsertSorted(_, _, _)
InsertSorted(h, sorted, x) ==
    IF sorted = <<>> THEN <<x>>
    ELSE IF SortKey(h[x]).us < SortKey(h[Head(sorted)]).us
         THEN <<x>> \o sorted
         ELSE <<Head(sorted)>> \o InsertSorted(h, Tail(sorted), x)

RECURSIVE SortFrom(_, _, _)
SortFrom(h, sorted, rest) ==
    IF rest = <<>> THEN sorted
    ELSE SortFrom(h, InsertSorted(h, sorted, Head(rest)), Tail(rest))

\* nodes.sort(key=...): stable, ascending.
StableSort(h, addrs) == SortFrom(h, <<>>, addrs)

\* The loop of add_spans: one fresh node per record, indexed under its span_id.
RECURSIVE InsertNodes(_, _, _)
InsertNodes(h, idx, spans) ==
    IF spans = <<>> THEN [heap |-> h, nodes_by_id |-> idx]
    ELSE InsertNodes(Append(h, SpanNode(Head(spans))),
                     DictSet(idx, Head(spans).span_id, Len(h) + 1),
                     Tail(spans))

\* The first loop of _rebuild_tree: attach every node whose parent is indexed.
RECURSIVE LinkChildren(_, _, _)
LinkChildren(h, idx, order) ==
    IF order = <<>> THEN h
    ELSE LET c == Head(order)
             pid == h[c].span.parent_id
             p == IF pid = None THEN None ELSE DictGet(idx, pid)
         IN  LinkChildren(IF p = None THEN h ELSE add_child(h, p, c), idx, Tail(order))

IsRootParentNoneOnly(h, idx, a) == h[a].span.parent_id = None

\* The test of the second loop of _rebuild_tree.
IsRoot(h, idx, a) ==
    h[a].span.parent_id = None \/ ~DictHas(idx, h[a].span.parent_id)

RECURSIVE SelectRoots(_, _, _)
SelectRoots(h, idx, order) ==
    IF order = <<>> THEN <<>>
    ELSE (IF IsRoot(h, idx, Head(order)) THEN <<Head(order)>> ELSE <<>>)
         \o SelectRoots(h, idx, Tail(order))

\* self.nodes_by_id = {node.span_id: node for node in nodes}
Reindex(h, sorted) ==
    [i \in 1..Len(sorted) |-> [k |-> h[sorted[i]].span.span_id, v |-> sorted[i]]]

Relink(h, idx2, sorted, h2) ==
    [heap |-> h2, nodes_by_id |-> idx2,
     roots |-> SelectRoots(h2, idx2, sorted), raised |-> FALSE]

Rebuild(h, sorted, idx2) == Relink(h, idx2, sorted, LinkChildren(h, idx2, sorted))

RebuildSorted(h, sorted) == Rebuild(h, sorted, Reindex(h, sorted))

\* SpanTree._rebuild_tree on (heap, nodes_by_id, roots). When the sort raises,
\* nothing after it runs: index, links and roots stay as they were.
_rebuild_tree(h, idx, rts) ==
    IF SortRaises(h, DictValues(idx))
    THEN [heap |-> h, nodes_by_id |-> idx, roots |-> rts, raised |-> TRUE]
    ELSE RebuildSorted(h, StableSort(h, DictValues(idx)))

\* SpanTree.add_spans
add_spans(h, idx, rts, spans) ==
    LET ins == InsertNodes(h, idx, spans)
    IN  _rebuild_tree(ins.heap, ins.nodes_by_id, rts)

----------------------------------------------------------------------------
(* SpanNode.matches *)

Names == {"X", "Y"}
AttrKeys == {"a", "b"}

\* Python values: bool is a subtype of int, True == 1; None equals only None.
PyInt(n) == [type |-> "int", val |-> n]
PyTrue == [type |-> "bool", val |-> 1]
PyNone == [type |-> "NoneType", val |-> 0]

\* Values an OpenTelemetry attribute can hold, and values a caller can supply.
SpanValues == {PyInt(1), PyInt(2), PyTrue}
ArgValues == SpanValues \cup {PyNone}

Dicts(K, V) == UNION {[D -> V] : D \in SUBSET K}

Optional(S) == {<<>>} \cup {<<x>> : x \in S}

\* Python ==
PyEq(x, y) ==
    IF x.type \in {"int", "bool"} /\ y.type \in {"int", "bool"}
    THEN x.val = y.val
    ELSE x = y

\* dict.get(k): the value, or None when the key is missing.
PyDictGet(d, k) == IF k \in DOMAIN d THEN d[k] ELSE PyNone

\* `self._span.attributes or {}`: None and the empty mapping both give {}.
OrEmpty(opt) == IF opt = <<>> THEN <<>> ELSE opt[1]

\* SpanNode.matches(name, attributes) on a node with the given name and span
\* attributes. `if attributes:` skips None and the empty dict.
matches(nname, nattrs, name, attributes) ==
    IF name /= <<>> /\ nname /= name[1] THEN FALSE
    ELSE IF attributes /= <<>> /\ DOMAIN attributes[1] /= {}
              /\ \E attr_key \in DOMAIN attributes[1] :
                    ~PyEq(PyDictGet(OrEmpty(nattrs), attr_key), attributes[1][attr_key])
         THEN FALSE
         ELSE TRUE

----------------------------------------------------------------------------
(* Context-scoped span collector *)

\* Threads of control that run a context_subtree_spans block.
Owners == {1, 2}
\* A thread of control started by an owner; it starts with a copy of the owner's
\* context (contextvars.copy_context, as asyncio.to_thread or a task does).
Workers == {3}
Threads == Owners \cup Workers
NoThread == 0

ContextVarGetShared(cv, t) ==
    IF \E u \in Threads : cv[u] /= None
    THEN cv[CHOOSE u \in Threads : cv[u] /= None]
    ELSE None

\* _EXPORTER_CONTEXT_ID.get() in thread of control t: the variable is context-local.
ContextVarGet(cv, t) == cv[t]

\* self._finished_spans.get(context_id, [])
BufferOf(fs, cid) == IF DictHas(fs, cid) THEN DictGet(fs, cid) ELSE <<>>

export_store_none_key(fs, cid, spans) == DictSet(fs, cid, BufferOf(fs, cid) \o spans)

export_store_prepend(fs, cid, spans) ==
    IF cid = None THEN fs ELSE DictSet(fs, cid, spans \o BufferOf(fs, cid))

\* The locked body of export: the defaultdict creates the buffer on first use.
export_store(fs, cid, spans) ==
    IF cid = None THEN fs ELSE DictSet(fs, cid, BufferOf(fs, cid) \o spans)

\* get_finished_spans(context_id) with a context id: a tuple copy of the buffer.
get_finished_spans(fs, cid) == BufferOf(fs, cid)

\* clear(context_id) with a context id: self._finished_spans.pop(context_id, None)
clear(fs, cid) == SelectSeq(fs, LAMBDA e : e.k /= cid)

\* The finally clause of _set_exporter_context_id: _EXPORTER_CONTEXT_ID.reset(token)
\* gives the variable, in this thread of control, the value it had before set.
reset_to_none(cv, t, tok) == [cv EXCEPT ![t] = None]

reset_skipped(cv, t, tok) == cv

reset(cv, t, tok) == [cv EXCEPT ![t] = tok]

extend_dropped(y, r) == y

\* spans.extend(result)
extend(y, r) == y \o r

lists_alias_buffers(y, fs) ==
    [t \in Threads |->
        IF context_id[t] /= None /\ DictHas(fs, context_id[t])
        THEN DictGet(fs, context_id[t])
        ELSE y[t]]

\* `spans: list = []`: the list handed to a block is an object of its own, so a
\* store into the exporter's buffers leaves every such list as it is.
lists_after_store(y, fs) == y

export_rejects_never(st) == FALSE

\* `if self._stopped: return SpanExportResult.FAILURE`
export_rejects(st) == st

\* context_subtree_spans up to the yield: (the exporter is attached,) spans = [],
\* and _set_exporter_context_id sets a fresh uuid as the current context id.
Enter(t) ==
    /\ pc[t] = "start"
    /\ context_id' = [context_id EXCEPT ![t] = next_uuid]
    /\ token' = [token EXCEPT ![t] = ctxvar[t]]
    /\ ctxvar' = [ctxvar EXCEPT ![t] = next_uuid]
    /\ next_uuid' = next_uuid + 1
    /\ yielded' = [yielded EXCEPT ![t] = <<>>]
    /\ pc' = [pc EXCEPT ![t] = "body"]
    /\ UNCHANGED <<result, finished_spans, stopped, lock, exp_arg, exp_ret, n_exports,
                   succeeded, ret_pc, at_exit>>
    /\ UNCHANGED <<treeVars, matchVars, attachVars, queryVars, nestVars>>

\* The block ends normally: the finally clause resets the context variable.
ExitNormal(t) ==
    /\ pc[t] = "body"
    /\ ctxvar' = reset(ctxvar, t, token[t])
    /\ pc' = [pc EXCEPT ![t] = "get"]
    /\ at_exit' = [at_exit EXCEPT ![t] = {s \in succeeded : s.ctx = context_id[t]}]
    /\ UNCHANGED <<context_id, token, result, yielded, finished_spans, stopped, lock,
                   exp_arg, exp_ret, n_exports, next_uuid, succeeded, ret_pc>>
    /\ UNCHANGED <<treeVars, matchVars, attachVars, queryVars, nestVars>>

\* The block raises: the finally clause resets the context variable and the
\* exception leaves context_subtree_spans.
ExitRaise(t) ==
    /\ pc[t] = "body"
    /\ ctxvar' = reset(ctxvar, t, token[t])
    /\ pc' = [pc EXCEPT ![t] = "raised"]
    /\ UNCHANGED <<context_id, token, result, yielded, finished_spans, stopped, lock,
                   exp_arg, exp_ret, n_exports, next_uuid, succeeded, ret_pc, at_exit>>
    /\ UNCHANGED <<treeVars, matchVars, attachVars, queryVars, nestVars>>

\* `with self._lock:` of get_finished_spans, clear and export.
Acquire(t, from, to) ==
    /\ pc[t] = from
    /\ lock = NoThread
    /\ lock' = t
    /\ pc' = [pc EXCEPT ![t] = to]
    /\ UNCHANGED <<ctxvar, context_id, token, result, yielded, finished_spans, stopped,
                   exp_arg, exp_ret, n_exports, next_uuid, succeeded, ret_pc, at_exit>>
    /\ UNCHANGED <<treeVars, matchVars, attachVars, queryVars, nestVars>>

GetAcquire(t) == Acquire(t, "get", "get_locked")

\* result = exporter.get_finished_spans(context_id)
GetLocked(t) ==
    /\ pc[t] = "get_locked"
    /\ result' = [result EXCEPT ![t] = get_finished_spans(finished_spans, context_id[t])]
    /\ lock' = NoThread
    /\ pc' = [pc EXCEPT ![t] = "clear"]
    /\ UNCHANGED <<ctxvar, context_id, token, yielded, finished_spans, stopped,
                   exp_arg, exp_ret, n_exports, next_uuid, succeeded, ret_pc, at_exit>>
    /\ UNCHANGED <<treeVars, matchVars, attachVars, queryVars, nestVars>>

ClearAcquire(t) == Acquire(t, "clear", "clear_locked")

\* exporter.clear(context_id)
ClearLocked(t) ==
    /\ pc[t] = "clear_locked"
    /\ finished_spans' = clear(finished_spans, context_id[t])
    /\ lock' = NoThread
    /\ pc' = [pc EXCEPT ![t] = "extend"]
    /\ UNCHANGED <<ctxvar, context_id, token, result, yielded, stopped,
                   exp_arg, exp_ret, n_exports, next_uuid, succeeded, ret_pc, at_exit>>
    /\ UNCHANGED <<treeVars, matchVars, attachVars, queryVars, nestVars>>

\* spans.extend(result), the last statement of context_subtree_spans.
Extend(t) ==
    /\ pc[t] = "extend"
    /\ yielded' = [yielded EXCEPT ![t] = extend(yielded[t], result[t])]
    /\ pc' = [pc EXCEPT ![t] = "done"]
    /\ UNCHANGED <<ctxvar, context_id, token, result, finished_spans, stopped, lock,
                   exp_arg, exp_ret, n_exports, next_uuid, succeeded, ret_pc, at_exit>>
    /\ UNCHANGED <<treeVars, matchVars, attachVars, queryVars, nestVars>>

\* An owner starts a thread of control, which gets a copy of the owner's context.
Spawn(t, w) ==
    /\ pc[w] = "unborn"
    /\ pc[t] \in {"start", "body", "done"}
    /\ ctxvar' = [ctxvar EXCEPT ![w] = ctxvar[t]]
    /\ pc' = [pc EXCEPT ![w] = "run"]
    /\ UNCHANGED <<context_id, token, result, yielded, finished_spans, stopped, lock,
                   exp_arg, exp_ret, n_exports, next_uuid, succeeded, ret_pc, at_exit>>
    /\ UNCHANGED <<treeVars, matchVars, attachVars, queryVars, nestVars>>

RECURSIVE SumOver(_, _)
SumOver(f, S) ==
    IF S = {} THEN 0
    ELSE LET x == CHOOSE y \in S : TRUE IN f[x] + SumOver(f, S \ {x})

\* A span handed to export: who exported it, its number, and (history) the
\* context id that was current in the exporting context at the call and the
\* position of the exporting thread of control at the call.
NewSpan(t) == [by |-> t, n |-> n_exports[t] + 1, ctx |-> ctxvar[t], at |-> pc[t]]

\* A span ends in thread t (SimpleSpanProcessor.on_end), inside a block, after
\* it, or in a started thread of control: export is called with that one span
\* and reads _stopped without the lock.
ExportCall(t) ==
    /\ pc[t] \in {"body", "run", "done", "raised"}
    /\ SumOver(n_exports, Threads) < MaxExports
    /\ n_exports' = [n_exports EXCEPT ![t] = @ + 1]
    /\ IF export_rejects(stopped)
       THEN /\ exp_ret' = [exp_ret EXCEPT ![t] = "FAILURE"]
            /\ UNCHANGED <<pc, exp_arg, ret_pc>>
       ELSE /\ exp_arg' = [exp_arg EXCEPT ![t] = <<NewSpan(t)>>]
            /\ ret_pc' = [ret_pc EXCEPT ![t] = pc[t]]
            /\ pc' = [pc EXCEPT ![t] = "export_wait"]
            /\ UNCHANGED exp_ret
    /\ UNCHANGED <<ctxvar, context_id, token, result, yielded, finished_spans, stopped,
                   lock, next_uuid, succeeded, at_exit>>
    /\ UNCHANGED <<treeVars, matchVars, attachVars, queryVars, nestVars>>

ExportAcquire(t) == Acquire(t, "export_wait", "export_locked")

\* The locked body of export, the release of the lock and the return of SUCCESS.
ExportLocked(t) ==
    /\ pc[t] = "export_locked"
    /\ \E fs \in {export_store(finished_spans, ContextVarGet(ctxvar, t), exp_arg[t])} :
          /\ finished_spans' = fs
          /\ yielded' = lists_after_store(yielded, fs)
    /\ lock' = NoThread
    /\ exp_ret' = [exp_ret EXCEPT ![t] = "SUCCESS"]
    /\ succeeded' = succeeded \cup {exp_arg[t][i] : i \in 1..Len(exp_arg[t])}
    /\ exp_arg' = [exp_arg EXCEPT ![t] = <<>>]
    /\ pc' = [pc EXCEPT ![t] = ret_pc[t]]
    /\ UNCHANGED <<ctxvar, context_id, token, result, stopped, n_exports,
                   next_uuid, ret_pc, at_exit>>
    /\ UNCHANGED <<treeVars, matchVars, attachVars, queryVars, nestVars>>

\* exporter.shutdown(); it may be called again on a stopped exporter.
Shutdown ==
    /\ stopped' = TRUE
    /\ UNCHANGED <<ctxvar, pc, context_id, token, result, yielded, finished_spans, lock,
                   exp_arg, exp_ret, n_exports, next_uuid, succeeded, ret_pc, at_exit>>
    /\ UNCHANGED <<treeVars, matchVars, attachVars, queryVars, nestVars>>

----------------------------------------------------------------------------
(* context_subtree_spans blocks nested on one thread of control *)

\* The thread of control that runs the nested blocks.
NestThread == CHOOSE t \in Owners : \A u \in Owners : t <= u

\* The innermost active block.
Top(fr) == fr[Len(fr)]

\* The scope id of the innermost active block, None outside every block.
InnermostScope(fr) == IF fr = <<>> THEN None ELSE Top(fr).context_id

\* context_subtree_spans up to the yield, inside the blocks already active:
\* spans = [], a fresh uuid becomes the current context id, the token keeps the
\* value that was current.
NestedEnter ==
    /\ next_uuid <= MaxEntries
    /\ frames' = Append(frames, [context_id |-> next_uuid,
                                 token |-> ctxvar[NestThread],
                                 spans |-> <<>>])
    /\ ctxvar' = [ctxvar EXCEPT ![NestThread] = next_uuid]
    /\ next_uuid' = next_uuid + 1
    /\ UNCHANGED <<pc, context_id, token, result, yielded, finished_spans, stopped, lock,
                   exp_arg, exp_ret, n_exports, succeeded, ret_pc, at_exit>>
    /\ UNCHANGED closed
    /\ UNCHANGED <<treeVars, matchVars, attachVars, queryVars>>

\* A span ends on the thread: export runs from its _stopped test to its return
\* (no other thread of control uses the exporter). The span records (history)
\* the scope id of the innermost block active at the call.
NestedExport ==
    /\ SumOver(n_exports, Threads) < MaxExports
    /\ n_exports' = [n_exports EXCEPT ![NestThread] = @ + 1]
    /\ IF export_rejects(stopped)
       THEN /\ exp_ret' = [exp_ret EXCEPT ![NestThread] = "FAILURE"]
            /\ UNCHANGED <<finished_spans, succeeded>>
       ELSE LET span == [by |-> NestThread,
                         n |-> n_exports[NestThread] + 1,
                         ctx |-> InnermostScope(frames),
                         at |-> "body"]
            IN  /\ finished_spans' =
                      export_store(finished_spans, ContextVarGet(ctxvar, NestThread), <<span>>)
                /\ succeeded' = succeeded \cup {span}
                /\ exp_ret' = [exp_ret EXCEPT ![NestThread] = "SUCCESS"]
    /\ UNCHANGED <<ctxvar, pc, context_id, token, result, yielded, stopped, lock,
                   exp_arg, next_uuid, ret_pc, at_exit>>
    /\ UNCHANGED <<frames, closed>>
    /\ UNCHANGED <<treeVars, matchVars, attachVars, queryVars>>

\* The innermost block ends normally: the context variable is reset, the buffer
\* of the scope is read and cleared, and the spans go into the yielded list.
NestedExitNormal ==
    /\ frames /= <<>>
    /\ ctxvar' = reset(ctxvar, NestThread, Top(frames).token)
    /\ finished_spans' = clear(finished_spans, Top(frames).context_id)
    /\ closed' = Append(closed,
                        [context_id |-> Top(frames).context_id,
                         token |-> Top(frames).token,
                         spans |-> extend(Top(frames).spans,
                                          get_finished_spans(finished_spans,
                                                             Top(frames).context_id)),
                         how |-> "normal"])
    /\ frames' = SubSeq(frames, 1, Len(frames) - 1)
    /\ UNCHANGED <<pc, context_id, token, result, yielded, stopped, lock,
                   exp_arg, exp_ret, n_exports, next_uuid, succeeded, ret_pc, at_exit>>
    /\ UNCHANGED <<treeVars, matchVars, attachVars, queryVars>>

\* The body of the innermost block raises: the context variable is reset and the
\* exception leaves this block (it is caught outside it, or goes on through the
\* enclosing block in a further step).
NestedExitRaise ==
    /\ frames /= <<>>
    /\ ctxvar' = reset(ctxvar, NestThread, Top(frames).token)
    /\ closed' = Append(closed,
                        [context_id |-> Top(frames).context_id,
                         token |-> Top(frames).token,
                         spans |-> Top(frames).spans,
                         how |-> "raised"])
    /\ frames' = SubSeq(frames, 1, Len(frames) - 1)
    /\ UNCHANGED <<pc, context_id, token, result, yielded, finished_spans, stopped, lock,
                   exp_arg, exp_ret, n_exports, next_uuid, succeeded, ret_pc, at_exit>>
    /\ UNCHANGED <<treeVars, matchVars, attachVars, queryVars>>

----------------------------------------------------------------------------
(* The entry of context_subtree_spans: _add_context_span_exporter under
   functools.cache *)

has_add_span_processor_assumed(ok) == TRUE

\* hasattr(tracer_provider, 'add_span_processor')
has_add_span_processor(ok) == ok

\* logfire.configure(...) or opentelemetry.trace.set_tracer_provider(...): from
\* now on get_tracer_provider() returns a provider with add_span_processor.
Configure ==
    /\ ~provider_ok
    /\ provider_ok' = TRUE
    /\ UNCHANGED <<a_pc, cache, n_created, processors, a_local, a_exporter, a_entries,
                   a_raised>>
    /\ UNCHANGED <<treeVars, matchVars, colVars, queryVars, nestVars>>

\* context_subtree_spans calls _add_context_span_exporter(): the wrapper of
\* functools.cache looks the call up; on a hit it returns the cached exporter,
\* on a miss it goes on to call the function.
AttachCall(t) ==
    /\ a_pc[t] = "idle"
    /\ a_entries[t] < MaxEntries
    /\ a_entries' = [a_entries EXCEPT ![t] = @ + 1]
    /\ IF cache /= <<>>
       THEN /\ a_exporter' = [a_exporter EXCEPT ![t] = cache[1]]
            /\ a_pc' = [a_pc EXCEPT ![t] = "attached"]
       ELSE /\ a_pc' = [a_pc EXCEPT ![t] = "miss"]
            /\ UNCHANGED a_exporter
    /\ UNCHANGED <<provider_ok, cache, n_created, processors, a_local, a_raised>>
    /\ UNCHANGED <<treeVars, matchVars, colVars, queryVars, nestVars>>

\* The function body up to the creation of the exporter: without the method it
\* raises TypeError, which leaves context_subtree_spans before `spans = []`;
\* functools.cache stores nothing for a call that raises.
AttachBody(t) ==
    /\ a_pc[t] = "miss"
    /\ IF has_add_span_processor(provider_ok)
       THEN /\ n_created' = n_created + 1
            /\ a_local' = [a_local EXCEPT ![t] = n_created + 1]
            /\ a_pc' = [a_pc EXCEPT ![t] = "created"]
            /\ UNCHANGED a_raised
       ELSE /\ a_raised' = [a_raised EXCEPT ![t] = @ + 1]
            /\ a_pc' = [a_pc EXCEPT ![t] = "idle"]
            /\ UNCHANGED <<n_created, a_local>>
    /\ UNCHANGED <<provider_ok, cache, processors, a_exporter, a_entries>>
    /\ UNCHANGED <<treeVars, matchVars, colVars, queryVars, nestVars>>

\* tracer_provider.add_span_processor(SimpleSpanProcessor(exporter))
AttachRegister(t) ==
    /\ a_pc[t] = "created"
    /\ processors' = Append(processors, a_local[t])
    /\ a_pc' = [a_pc EXCEPT ![t] = "registered"]
    /\ UNCHANGED <<provider_ok, cache, n_created, a_local, a_exporter, a_entries,
                   a_raised>>
    /\ UNCHANGED <<treeVars, matchVars, colVars, queryVars, nestVars>>

\* `return exporter`: the wrapper stores the result in the cache and hands it to
\* context_subtree_spans.
AttachReturn(t) ==
    /\ a_pc[t] = "registered"
    /\ cache' = <<a_local[t]>>
    /\ a_exporter' = [a_exporter EXCEPT ![t] = a_local[t]]
    /\ a_pc' = [a_pc EXCEPT ![t] = "attached"]
    /\ UNCHANGED <<provider_ok, n_created, processors, a_local, a_entries, a_raised>>
    /\ UNCHANGED <<treeVars, matchVars, colVars, queryVars, nestVars>>

\* spans = [] and the entry of _set_exporter_context_id: the block body starts.
AttachedEnter(t) ==
    /\ a_pc[t] = "attached"
    /\ context_id' = [context_id EXCEPT ![t] = next_uuid]
    /\ token' = [token EXCEPT ![t] = ctxvar[t]]
    /\ ctxvar' = [ctxvar EXCEPT ![t] = next_uuid]
    /\ next_uuid' = next_uuid + 1
    /\ yielded' = [yielded EXCEPT ![t] = <<>>]
    /\ a_pc' = [a_pc EXCEPT ![t] = "body"]
    /\ UNCHANGED <<pc, result, finished_spans, stopped, lock, exp_arg, exp_ret, n_exports,
                   succeeded, ret_pc, at_exit>>
    /\ UNCHANGED <<provider_ok, cache, n_created, processors, a_local, a_exporter,
                   a_entries, a_raised>>
    /\ UNCHANGED <<treeVars, matchVars, queryVars, nestVars>>

\* The block, in which nothing is exported, ends: the context variable is reset
\* and the drain of the scope's (missing) buffer adds nothing to the list.
AttachedLeave(t) ==
    /\ a_pc[t] = "body"
    /\ ctxvar' = reset(ctxvar, t, token[t])
    /\ a_pc' = [a_pc EXCEPT ![t] = "idle"]
    /\ UNCHANGED <<pc, context_id, token, result, yielded, finished_spans, stopped, lock,
                   exp_arg, exp_ret, n_exports, next_uuid, succeeded, ret_pc, at_exit>>
    /\ UNCHANGED <<provider_ok, cache, n_created, processors, a_local, a_exporter,
                   a_entries, a_raised>>
    /\ UNCHANGED <<treeVars, matchVars, queryVars, nestVars>>

----------------------------------------------------------------------------
(* Queries: SpanNode.find_children .. any_ancestor, SpanTree.find_all .. any *)

\* The predicates handed to a query, each given by the span ids it accepts.
Preds == {{1, 2, 3}, {2}, {1, 3}}

\* predicate(node)
Holds(p, h, a) == h[a].span.span_id \in p

\* The nodes of the tree: the values of nodes_by_id.
NodesOf(idx) == {idx[i].v : i \in 1..Len(idx)}

\* [child for child in self.children if predicate(child)]
find_children(h, a, p) == SelectSeq(children(h, a), LAMBDA c : Holds(p, h, c))

\* first_child: the first child, in order, that the predicate accepts, or None.
first_child(h, a, p) ==
    IF find_children(h, a, p) = <<>> THEN None ELSE find_children(h, a, p)[1]

\* stack = list(self.children)
descendants_start(h, a) == children(h, a)

\* A query on the children: one pass over self.children.
CallChildQuery ==
    /\ q_pc = "idle" /\ calls >= 1 /\ ~raised
    /\ \E kind \in {"find_children", "first_child"}, n \in NodesOf(nodes_by_id), p \in Preds :
          /\ q_kind' = kind
          /\ q_self' = n
          /\ q_pred' = p
          /\ q_found' = IF kind = "find_children" THEN find_children(heap, n, p) ELSE <<>>
          /\ q_ret' = IF kind = "first_child" THEN first_child(heap, n, p) ELSE None
    /\ q_pc' = "done"
    /\ UNCHANGED <<q_stack, q_node, q_seen, q_repeat>>
    /\ UNCHANGED <<treeVars, matchVars, colVars, attachVars, nestVars>>

\* find_descendants / first_descendant up to the loop head.
CallDescendantQuery ==
    /\ q_pc = "idle" /\ calls >= 1 /\ ~raised
    /\ \E kind \in {"find_descendants", "first_descendant"},
          n \in NodesOf(nodes_by_id), p \in Preds :
          /\ q_kind' = kind
          /\ q_self' = n
          /\ q_pred' = p
          /\ q_stack' = descendants_start(heap, n)
    /\ q_pc' = "loop"
    /\ UNCHANGED <<q_node, q_found, q_ret, q_seen, q_repeat>>
    /\ UNCHANGED <<treeVars, matchVars, colVars, attachVars, nestVars>>

\* SpanTree.find_all / find_first up to the loop head: stack = self.roots[:]
CallTreeQuery ==
    /\ q_pc = "idle" /\ calls >= 1 /\ ~raised
    /\ \E kind \in {"find_all", "find_first"}, p \in Preds :
          /\ q_kind' = kind
          /\ q_pred' = p
    /\ q_stack' = roots
    /\ q_pc' = "loop"
    /\ UNCHANGED <<q_self, q_node, q_found, q_ret, q_seen, q_repeat>>
    /\ UNCHANGED <<treeVars, matchVars, colVars, attachVars, nestVars>>

\* node = self.parent
ancestors_start(h, a) == h[a].parent

\* find_ancestors / first_ancestor up to the loop head: node = self.parent
CallAncestorQuery ==
    /\ q_pc = "idle" /\ calls >= 1 /\ ~raised
    /\ \E kind \in {"find_ancestors", "first_ancestor"},
          n \in NodesOf(nodes_by_id), p \in Preds :
          /\ q_kind' = kind
          /\ q_self' = n
          /\ q_pred' = p
          /\ q_node' = ancestors_start(heap, n)
          /\ q_seen' = {<<ancestors_start(heap, n)>>}
    /\ q_pc' = "loop"
    /\ UNCHANGED <<q_stack, q_found, q_ret, q_repeat>>
    /\ UNCHANGED <<treeVars, matchVars, colVars, attachVars, nestVars>>

\* One pass of `while stack:` (or the return when the stack is empty): pop the
\* last node, test it, push its children. A node is popped while the descendants
\* of an earlier pop of the same node are still being worked through only if it
\* is its own descendant; the loop then never ends and is not followed further.
StackStep ==
    /\ q_pc = "loop" /\ ~q_repeat
    /\ q_kind \in {"find_descendants", "first_descendant", "find_all", "find_first"}
    /\ IF q_stack = <<>>
       THEN /\ q_pc' = "done"
            /\ UNCHANGED <<q_stack, q_found, q_ret, q_seen, q_repeat>>
       ELSE LET node == q_stack[Len(q_stack)]
                rest == SubSeq(q_stack, 1, Len(q_stack) - 1)
            IN  IF Holds(q_pred, heap, node) /\ q_kind \in {"first_descendant", "find_first"}
                THEN /\ q_ret' = node
                     /\ q_stack' = rest
                     /\ q_pc' = "done"
                     /\ UNCHANGED <<q_found, q_seen, q_repeat>>
                ELSE /\ q_found' = IF Holds(q_pred, heap, node)
                                   THEN Append(q_found, node) ELSE q_found
                     /\ q_stack' = rest \o children(heap, node)
                     /\ q_seen' = {e \in q_seen : e[2] < Len(q_stack)}
                                       \cup {<<node, Len(rest)>>}
                     /\ q_repeat' = (\E e \in q_seen : e[2] < Len(q_stack) /\ e[1] = node)
                     /\ UNCHANGED <<q_pc, q_ret>>
    /\ UNCHANGED <<q_kind, q_self, q_pred, q_node>>
    /\ UNCHANGED <<treeVars, matchVars, colVars, attachVars, nestVars>>

\* One pass of `while node:` (or the return at the end of the chain): test the
\* node, go on to its parent. A walk that comes to a node it was at before
\* never ends and is not followed further.
AncestorStep ==
    /\ q_pc = "loop" /\ ~q_repeat
    /\ q_kind \in {"find_ancestors", "first_ancestor"}
    /\ IF q_node = None
       THEN /\ q_pc' = "done"
            /\ UNCHANGED <<q_node, q_found, q_ret, q_seen, q_repeat>>
       ELSE IF Holds(q_pred, heap, q_node) /\ q_kind = "first_ancestor"
            THEN /\ q_ret' = q_node
                 /\ q_pc' = "done"
                 /\ UNCHANGED <<q_node, q_found, q_seen, q_repeat>>
            ELSE /\ q_found' = IF Holds(q_pred, heap, q_node)
                               THEN Append(q_found, q_node) ELSE q_found
                 /\ q_node' = heap[q_node].parent
                 /\ q_seen' = q_seen \cup {<<heap[q_node].parent>>}
                 /\ q_repeat' = (<<heap[q_node].parent>> \in q_seen)
                 /\ UNCHANGED <<q_pc, q_ret>>
    /\ UNCHANGED <<q_kind, q_self, q_pred, q_stack>>
    /\ UNCHANGED <<treeVars, matchVars, colVars, attachVars, nestVars>>

----------------------------------------------------------------------------
(* Initial values of the parts a specification does not exercise *)

TreeInit ==
    /\ heap = <<>>
    /\ nodes_by_id = <<>>
    /\ roots = <<>>
    /\ raised = FALSE
    /\ supplied = <<>>
    /\ calls = 0

MatchIdle ==
    /\ node_name = "X"
    /\ node_attributes = <<>>
    /\ arg_name = <<>>
    /\ arg_attributes = <<>>
    /\ match_result = <<>>

CollectorInit ==
    /\ ctxvar = [t \in Threads |-> None]
    /\ pc = [t \in Threads |-> IF t \in Owners THEN "start" ELSE "unborn"]
    /\ context_id = [t \in Threads |-> None]
    /\ token = [t \in Threads |-> None]
    /\ result = [t \in Threads |-> <<>>]
    /\ yielded = [t \in Threads |-> <<>>]
    /\ finished_spans = <<>>
    /\ stopped = FALSE
    /\ lock = NoThread
    /\ exp_arg = [t \in Threads |-> <<>>]
    /\ exp_ret = [t \in Threads |-> "none"]
    /\ n_exports = [t \in Threads |-> 0]
    /\ next_uuid = 1
    /\ succeeded = {}
    /\ ret_pc = [t \in Threads |-> "none"]
    /\ at_exit = [t \in Threads |-> {}]

\* No tracer provider has been set (get_tracer_provider() returns the proxy
\* provider, which has no add_span_processor), nothing is cached or registered.
AttachInit ==
    /\ a_pc = [t \in Owners |-> "idle"]
    /\ provider_ok = FALSE
    /\ cache = <<>>
    /\ n_created = 0
    /\ processors = <<>>
    /\ a_local = [t \in Owners |-> None]
    /\ a_exporter = [t \in Owners |-> None]
    /\ a_entries = [t \in Owners |-> 0]
    /\ a_raised = [t \in Owners |-> 0]

QueryInit ==
    /\ q_pc = "idle"
    /\ q_kind = "none"
    /\ q_self = None
    /\ q_pred = {}
    /\ q_stack = <<>>
    /\ q_node = None
    /\ q_found = <<>>
    /\ q_ret = None
    /\ q_seen = {}
    /\ q_repeat = FALSE

NestInit ==
    /\ frames = <<>>
    /\ closed = <<>>

----------------------------------------------------------------------------
(* Specification of the tree: SpanTree(spans) *)

Init == TreeInit /\ MatchIdle /\ CollectorInit /\ AttachInit /\ QueryInit /\ NestInit

\* SpanTree(spans) with a non-empty list: __init__ hands the list to add_spans.
Construct ==
    /\ calls = 0
    /\ \E spans \in SeqsUpTo(Records, MaxLen) :
          \E r \in {add_spans(heap, nodes_by_id, roots, spans)} :
              /\ heap' = r.heap
              /\ nodes_by_id' = r.nodes_by_id
              /\ roots' = r.roots
              /\ raised' = r.raised
              /\ supplied' = spans
    /\ calls' = calls + 1
    /\ UNCHANGED <<matchVars, colVars, attachVars, queryVars, nestVars>>

Next == Construct

Spec == Init /\ [][Next]_vars

----------------------------------------------------------------------------
(* Specification of matches: one node, one call, every combination of a node's
   name and attributes with the arguments *)

InitMatch ==
    /\ TreeInit
    /\ CollectorInit
    /\ AttachInit
    /\ QueryInit
    /\ NestInit
    /\ node_name \in Names
    /\ node_attributes \in Optional(Dicts(AttrKeys, SpanValues))
    /\ arg_name \in Optional(Names)
    /\ arg_attributes \in Optional(Dicts(AttrKeys, ArgValues))
    /\ match_result = <<>>

CallMatches ==
    /\ match_result = <<>>
    /\ match_result' = <<matches(node_name, node_attributes, arg_name, arg_attributes)>>
    /\ UNCHANGED <<node_name, node_attributes, arg_name, arg_attributes>>
    /\ UNCHANGED <<treeVars, colVars, attachVars, queryVars, nestVars>>

NextMatch == CallMatches

SpecMatch == InitMatch /\ [][NextMatch]_vars

----------------------------------------------------------------------------
(* Specification of the collector: two owners each run one context_subtree_spans
   block, a worker started by one of them exports with the context it copied,
   and the exporter may be shut down at any time *)

InitCollector == TreeInit /\ MatchIdle /\ CollectorInit /\ AttachInit /\ QueryInit /\ NestInit

NextCollector ==
    \/ \E t \in Owners :
          \/ Enter(t)
          \/ ExitNormal(t)
          \/ ExitRaise(t)
          \/ GetAcquire(t)
          \/ GetLocked(t)
          \/ ClearAcquire(t)
          \/ ClearLocked(t)
          \/ Extend(t)
          \/ \E w \in Workers : Spawn(t, w)
    \/ \E t \in Threads :
          \/ ExportCall(t)
          \/ ExportAcquire(t)
          \/ ExportLocked(t)
    \/ Shutdown

SpecCollector == InitCollector /\ [][NextCollector]_vars

----------------------------------------------------------------------------
(* Specification of the entry: two threads of control enter context_subtree_spans
   several times each, before or after a tracer provider has been set *)

InitAttach == TreeInit /\ MatchIdle /\ CollectorInit /\ AttachInit /\ QueryInit /\ NestInit

NextAttach ==
    \/ Configure
    \/ \E t \in Owners :
          \/ AttachCall(t)
          \/ AttachBody(t)
          \/ AttachRegister(t)
          \/ AttachReturn(t)
          \/ AttachedEnter(t)
          \/ AttachedLeave(t)

SpecAttach == InitAttach /\ [][NextAttach]_vars

----------------------------------------------------------------------------
(* Specification of the queries: a tree is built by one or more add_spans calls
   from records that all carry the same start time, then one query runs on it *)

QueryRecords == {r \in Records : r.start_time = 0}

InitQuery == TreeInit /\ MatchIdle /\ CollectorInit /\ AttachInit /\ QueryInit /\ NestInit

\* SpanTree(spans), or a further tree.add_spans(spans), with a non-empty list.
AddSpans ==
    /\ q_pc = "idle" /\ ~raised
    /\ Len(supplied) < MaxSupplied
    /\ \E spans \in SeqsUpTo(QueryRecords, MaxSupplied - Len(supplied)) :
          \E r \in {add_spans(heap, nodes_by_id, roots, spans)} :
              /\ heap' = r.heap
              /\ nodes_by_id' = r.nodes_by_id
              /\ roots' = r.roots
              /\ raised' = r.raised
              /\ supplied' = supplied \o spans
    /\ calls' = calls + 1
    /\ UNCHANGED <<matchVars, colVars, attachVars, queryVars, nestVars>>

NextQuery ==
    \/ AddSpans
    \/ CallChildQuery
    \/ CallDescendantQuery
    \/ CallTreeQuery
    \/ CallAncestorQuery
    \/ StackStep
    \/ AncestorStep

SpecQuery == InitQuery /\ [][NextQuery]_vars

----------------------------------------------------------------------------
(* Specification of nesting: one thread of control opens context_subtree_spans
   blocks inside one another, exports spans in and between them, and leaves them
   normally or by an exception; the exporter may be shut down at any time *)

InitNested ==
    TreeInit /\ MatchIdle /\ CollectorInit /\ AttachInit /\ QueryInit /\ NestInit

NextNested ==
    \/ NestedEnter
    \/ NestedExport
    \/ NestedExitNormal
    \/ NestedExitRaise
    \/ Shutdown

SpecNested == InitNested /\ [][NextNested]_vars

----------------------------------------------------------------------------
(* Specification of incremental building: a tree is constructed empty and
   add_spans is called again and again with lists of records that have start
   times, until MaxLen records have been supplied *)

\* The records supplied to add_spans: all of them have a start time.
TimedRecords == {r \in Records : r.start_time \in {0, 1000}}

InitIncremental ==
    TreeInit /\ MatchIdle /\ CollectorInit /\ AttachInit /\ QueryInit /\ NestInit

\* SpanTree.add_spans(spans): the records are indexed and the tree is rebuilt.
IncrementalAddSpans ==
    /\ ~raised
    /\ Len(supplied) < MaxLen
    /\ \E spans \in SeqsUpTo(TimedRecords, MaxLen - Len(supplied)) :
          \E r \in {add_spans(heap, nodes_by_id, roots, spans)} :
              /\ heap' = r.heap
              /\ nodes_by_id' = r.nodes_by_id
              /\ roots' = r.roots
              /\ raised' = r.raised
              /\ supplied' = supplied \o spans
    /\ calls' = calls + 1
    /\ UNCHANGED <<matchVars, colVars, attachVars, queryVars, nestVars>>

NextIncremental == IncrementalAddSpans

SpecIncremental == InitIncremental /\ [][NextIncremental]_vars

----------------------------------------------------------------------------
(* Properties of the built tree *)

Addrs == 1..Len(heap)

Indexed == {nodes_by_id[i].v : i \in 1..Len(nodes_by_id)}

InSeq(x, s) == \E i \in 1..Len(s) : s[i] = x

Occurrences(x, s) == Cardinality({i \in 1..Len(s) : s[i] = x})

\* Position of x in s (x occurs in s).
IndexOf(x, s) == CHOOSE i \in 1..Len(s) : s[i] = x

SuppliedIds == {supplied[i].span_id : i \in 1..Len(supplied)}

\* The last record of the supplied list that carries span_id k.
LastSupplied(k) ==
    supplied[CHOOSE i \in 1..Len(supplied) :
                /\ supplied[i].span_id = k
                /\ \A j \in (i + 1)..Len(supplied) : supplied[j].span_id /= k]

\* The constructor has returned a tree.
Built == calls = 1 /\ ~raised

\* The nodes whose children list holds a.
ParentsOf(a) == {p \in Addrs : InSeq(a, children(heap, p))}

\* C2. Parentage exclusivity: in a built tree every indexed node that is not a
\* root is held in the children of exactly one node, once; that node carries the
\* span_id the child names as parent_id, and is the child's parent back-reference.
C2_ParentageExclusivity ==
    Built =>
        \A a \in Indexed :
            ~InSeq(a, roots) =>
                /\ Cardinality(ParentsOf(a)) = 1
                /\ \A p \in ParentsOf(a) :
                      /\ Occurrences(a, children(heap, p)) = 1
                      /\ heap[p].span.span_id = heap[a].span.parent_id
                      /\ heap[a].parent = p
                      /\ p \in Indexed

\* A built tree of three nodes in which one node has two children.
C2_Witness ==
    /\ Built
    /\ Len(nodes_by_id) = 3
    /\ \E p \in Indexed : Len(children(heap, p)) = 2 /\ ~InSeq(p, children(heap, p))

\* C3. Root promotion: in a built tree a node is a root if and only if its
\* parent_id is absent or is the span_id of no supplied record; every supplied
\* span_id is indexed, and no node is listed twice among the roots.
C3_RootPromotion ==
    Built =>
        /\ \A a \in Indexed :
              InSeq(a, roots) <=>
                  (heap[a].span.parent_id = None
                     \/ heap[a].span.parent_id \notin SuppliedIds)
        /\ \A k \in SuppliedIds : DictHas(nodes_by_id, k)
        /\ \A i \in 1..Len(roots) : roots[i] \in Indexed /\ Occurrences(roots[i], roots) = 1

\* A built tree with a root whose parent is missing from the list, next to a
\* node that is not a root.
C3_Witness ==
    /\ Built
    /\ \E a \in Indexed :
          /\ InSeq(a, roots)
          /\ heap[a].span.parent_id /= None
          /\ heap[a].span.parent_id \notin SuppliedIds
    /\ \E b \in Indexed : ~InSeq(b, roots)

\* C4. Completeness with duplicate collapse: after add_spans the index has one
\* entry per distinct supplied span_id, and the node under a span_id wraps the
\* record supplied last with that span_id.
C4_CompletenessLastWins ==
    calls = 1 =>
        /\ Len(nodes_by_id) = Cardinality(SuppliedIds)
        /\ {nodes_by_id[i].k : i \in 1..Len(nodes_by_id)} = SuppliedIds
        /\ \A i \in 1..Len(nodes_by_id) :
              /\ heap[nodes_by_id[i].v].span.span_id = nodes_by_id[i].k
              /\ heap[nodes_by_id[i].v].span = LastSupplied(nodes_by_id[i].k)

\* A built tree from a list in which a span_id comes twice with different records.
C4_Witness ==
    /\ Built
    /\ \E i, j \in 1..Len(supplied) :
          /\ i < j
          /\ supplied[i].span_id = supplied[j].span_id
          /\ supplied[i] /= supplied[j]
    /\ Len(nodes_by_id) = 2

\* r1 and r2 are two nodes whose records name the node p as parent.
ChildrenOf(p, r1, r2) ==
    /\ r1 /= r2 /\ p /= r1 /\ p /= r2
    /\ heap[r1].span.parent_id = heap[p].span.span_id
    /\ heap[r2].span.parent_id = heap[p].span.span_id

\* C5. Order determinism: whatever the input order, of two children of P the one
\* with the smaller start time (in nanoseconds) comes first in P.children.
C5_OrderDeterminism ==
    Built =>
        \A p, r1, r2 \in Indexed :
            ( /\ ChildrenOf(p, r1, r2)
              /\ heap[r1].span.start_time /= None
              /\ heap[r1].span.start_time < heap[r2].span.start_time )
            => /\ InSeq(r1, children(heap, p))
               /\ InSeq(r2, children(heap, p))
               /\ IndexOf(r1, children(heap, p)) < IndexOf(r2, children(heap, p))

\* Some indexed node has a start time, some has none.
MixedStarts ==
    /\ \E a \in Indexed : heap[a].span.start_time = None
    /\ \E a \in Indexed : heap[a].span.start_time /= None

\* s lists every node without a start time before every node with one.
AbsentFirst(s) ==
    \A i, j \in 1..Len(s) :
        (heap[s[i]].span.start_time /= None /\ heap[s[j]].span.start_time = None)
            => j < i

\* C6. Absent start time sorts first: a build from records with and without a
\* start time completes and lists the ones without before the ones with, in
\* nodes_by_id, in roots and in every children list.
C6_AbsentStartFirst ==
    (calls = 1 /\ MixedStarts) =>
        /\ ~raised
        /\ AbsentFirst(DictValues(nodes_by_id))
        /\ AbsentFirst(roots)
        /\ \A p \in Indexed : AbsentFirst(children(heap, p))

\* C7. The Builder raises no error, whatever records it is given.
C7_BuilderNeverRaises == ~raised

\* C9. Match semantics: matches returns true only if the name, when given,
\* equals the node's name and every supplied key is present in the node's
\* attributes with an equal value, whatever value is supplied for it.
C9_MatchSemantics ==
    (match_result = <<TRUE>>) =>
        /\ arg_name /= <<>> => node_name = arg_name[1]
        /\ arg_attributes /= <<>> =>
              \A k \in DOMAIN arg_attributes[1] :
                  /\ k \in DOMAIN OrEmpty(node_attributes)
                  /\ PyEq(OrEmpty(node_attributes)[k], arg_attributes[1][k])

----------------------------------------------------------------------------
(* Properties of the collector *)

\* The owner has read its scope's buffer (get_finished_spans has returned).
Drained(t) == pc[t] \in {"clear", "clear_locked", "extend", "done"}

\* C1. Scope isolation: under every interleaving, a span is appended only to the
\* buffer of the scope that was current in the exporting context; the drain of a
\* scope returns every span its own thread exported under it, only spans
\* exported under it, and no span of the other owner; the yielded list ends up
\* holding what the drain returned.
C1_ScopeIsolation ==
    /\ \A i \in 1..Len(finished_spans) :
          \A j \in 1..Len(finished_spans[i].v) :
              finished_spans[i].v[j].ctx = finished_spans[i].k
    /\ \A t \in Owners :
          Drained(t) =>
              /\ \A j \in 1..Len(result[t]) :
                    /\ result[t][j].ctx = context_id[t]
                    /\ result[t][j].by \notin Owners \ {t}
              /\ \A s \in succeeded :
                    (s.by = t /\ s.ctx = context_id[t]) => InSeq(s, result[t])
    /\ \A t \in Owners : pc[t] = "done" => yielded[t] = result[t]

\* Owner u's scope was opened first and is still active with two spans buffered,
\* while owner t, whose scope was opened later, has drained its own two spans.
C1_Witness ==
    \E t, u \in Owners :
        /\ t /= u
        /\ pc[u] = "body" /\ pc[t] = "clear"
        /\ context_id[u] /= None /\ context_id[u] < context_id[t]
        /\ Len(BufferOf(finished_spans, context_id[u])) = 2
        /\ Len(result[t]) = 2
        /\ \A j \in 1..2 : result[t][j].by = t

\* C10. Drain returns what it clears: every span that clear(context_id) removes
\* from the scope's buffer is in the sequence get_finished_spans(context_id)
\* returned, under every interleaving with export calls that carry the scope id.
C10_DrainReturnsWhatItClears ==
    \A t \in Owners :
        pc[t] = "clear_locked" =>
            \A j \in 1..Len(BufferOf(finished_spans, context_id[t])) :
                InSeq(BufferOf(finished_spans, context_id[t])[j], result[t])

\* Thread t is in an export call that it made at position p.
Exporting(t, p) == pc[t] \in {"export_wait", "export_locked"} /\ ret_pc[t] = p

\* The block of owner t is active: entered and not left.
Active(t) == pc[t] = "body" \/ Exporting(t, "body")

\* context_subtree_spans of owner t has returned after a normal exit of the block.
Returned(t) == pc[t] = "done" \/ Exporting(t, "done")

\* The list yielded to owner t, after the return, against the exports made under
\* its scope: it holds every span whose export under the scope had returned
\* SUCCESS when the block ended, only spans exported under the scope, each
\* once, and the spans of one thread in the order of its calls.
YieldedHoldsExports(t) ==
    /\ \A s \in at_exit[t] : Occurrences(s, yielded[t]) = 1
    /\ \A j \in 1..Len(yielded[t]) :
          /\ yielded[t][j] \in succeeded
          /\ yielded[t][j].ctx = context_id[t]
          /\ Occurrences(yielded[t][j], yielded[t]) = 1
    /\ \A i, j \in 1..Len(yielded[t]) :
          (i < j /\ yielded[t][i].by = yielded[t][j].by)
              => yielded[t][i].n < yielded[t][j].n

\* A step only appends to a buffer that it keeps: the calls of different threads
\* are stored in the order in which they take the lock.
BuffersAppendOnly ==
    \A i \in 1..Len(finished_spans) :
        LET cid == finished_spans[i].k
            old == finished_spans[i].v
            new == BufferOf(finished_spans', cid)
        IN  DictHas(finished_spans', cid) =>
                /\ Len(new) >= Len(old)
                /\ SubSeq(new, 1, Len(old)) = old

\* C11. After a normal exit of a context_subtree_spans block the yielded list
\* holds the spans exported while the scope was current in the exporting
\* context: all those exported by the time the block ended (closing the scope
\* discards none), only such spans, each once, in the order of the export calls.
C11_YieldedAfterExit ==
    /\ [](\A t \in Owners : Returned(t) => YieldedHoldsExports(t))
    /\ [][BuffersAppendOnly]_vars

\* An owner's block has returned a list of three spans, two of its own and one
\* of the thread of control it started, while the exporter is running.
C11_Witness ==
    \E t \in Owners :
        /\ pc[t] = "done" /\ ~stopped
        /\ Len(yielded[t]) = 3
        /\ \E j \in 1..3 : yielded[t][j].by \in Workers
        /\ Cardinality({j \in 1..3 : yielded[t][j].by = t}) = 2

\* Thread t takes a step of an export call: it makes the call, or it leaves the
\* locked body.
ExportStepOf(t) ==
    \/ n_exports'[t] /= n_exports[t]
    \/ pc[t] = "export_locked" /\ pc'[t] /= "export_locked"

\* C12. A span exported while no scope is current in the exporting context is
\* dropped: every step of such an export call leaves every scope buffer and the
\* set of scope ids that have a buffer unchanged, and the call that passed the
\* _stopped test returns SUCCESS (an exception is no outcome of export).
C12_UnscopedExportDropped ==
    [][\A t \in Threads :
          (ExportStepOf(t) /\ ContextVarGet(ctxvar, t) = None) =>
              /\ finished_spans' = finished_spans
              /\ (pc[t] = "export_locked" =>
                    /\ exp_ret'[t] = "SUCCESS"
                    /\ exp_arg[t][1] \in succeeded'
                    /\ pc'[t] = ret_pc[t])]_vars

\* A started thread of control without a scope and an owner whose block has
\* returned have each exported a span with SUCCESS while the other owner's
\* scope holds a buffer of one span.
C12_Witness ==
    /\ \E s \in succeeded : s.ctx = None /\ s.by \in Workers
    /\ \E s \in succeeded : s.ctx = None /\ s.by \in Owners /\ s.at = "done"
    /\ \A t \in Threads : ctxvar[t] = None => exp_ret[t] \in {"SUCCESS", "none"}
    /\ \E u \in Owners : Active(u) /\ Len(BufferOf(finished_spans, context_id[u])) = 1

\* C13. Writes after shutdown are rejected: an export call made on a stopped
\* exporter returns FAILURE at once and leaves every scope buffer unchanged,
\* with or without a current scope; a stopped exporter stays stopped, shutdown
\* leaves the buffers as they are, and the drain of a scope after shutdown
\* still returns the spans its owner exported under it before.
C13_PostShutdownRejected ==
    /\ [][/\ \A t \in Threads :
               (stopped /\ n_exports'[t] /= n_exports[t]) =>
                   /\ exp_ret'[t] = "FAILURE"
                   /\ finished_spans' = finished_spans
                   /\ pc'[t] = pc[t]
                   /\ succeeded' = succeeded
           /\ (stopped => stopped')
           /\ (stopped' /= stopped => finished_spans' = finished_spans)]_vars
    /\ [](\A t \in Owners :
             (stopped /\ Drained(t)) =>
                 \A s \in succeeded :
                     (s.by = t /\ s.ctx = context_id[t]) => InSeq(s, result[t]))

\* On a stopped exporter an owner, whose first span was stored before shutdown
\* and whose next export inside the block was rejected, has read its scope's
\* buffer and got the first span; a thread of control without a scope was
\* rejected as well.
C13_Witness ==
    /\ stopped
    /\ \E t \in Owners :
          /\ pc[t] = "clear"
          /\ exp_ret[t] = "FAILURE"
          /\ Len(result[t]) = 1 /\ result[t][1].by = t
    /\ \E w \in Workers : exp_ret[w] = "FAILURE" /\ ctxvar[w] = None

\* The block of owner t has been left, normally or by an exception.
AfterBlock(t) ==
    \/ pc[t] \in {"get", "get_locked", "clear", "clear_locked", "extend", "done", "raised"}
    \/ Exporting(t, "done")
    \/ Exporting(t, "raised")

\* C15. The scope is closed on every exit path: once the block has been left,
\* normally or by an exception, the current scope of the thread of control is
\* the one it had before entry, and no span it exports afterwards is stored
\* under the closed scope.
C15_ScopeClosedOnEveryExit ==
    \A t \in Owners :
        AfterBlock(t) =>
            /\ ContextVarGet(ctxvar, t) = token[t]
            /\ \A i \in 1..Len(finished_spans) :
                  finished_spans[i].k = context_id[t] =>
                      \A j \in 1..Len(finished_spans[i].v) :
                          ~(/\ finished_spans[i].v[j].by = t
                            /\ finished_spans[i].v[j].at \in {"done", "raised"})
            /\ \A s \in succeeded :
                  (s.by = t /\ s.at \in {"done", "raised"}) => s.ctx = token[t]

\* One owner left its block by an exception, the other normally; each has
\* exported a span afterwards, and the buffer of the scope left by the exception
\* still holds the one span exported inside the block.
C15_Witness ==
    \E t, u \in Owners :
        /\ pc[t] = "raised" /\ pc[u] = "done"
        /\ \E s \in succeeded : s.by = t /\ s.at = "raised"
        /\ \E s \in succeeded : s.by = u /\ s.at = "done"
        /\ Len(BufferOf(finished_spans, context_id[t])) = 1

\* C16. The yielded list is live: while the block is active, every span exported
\* under the scope is already an element of the yielded list.
C16_YieldedIsLive ==
    \A t \in Owners :
        Active(t) =>
            \A s \in succeeded : s.ctx = context_id[t] => InSeq(s, yielded[t])

\* C16, amended. The yielded list is not filled while the block is active: a
\* span exported under the scope is held by the exporter's buffer of that scope
\* and not by the list; the list changes in one step only, the last statement
\* of context_subtree_spans after a normal exit, which puts into it the spans
\* read from the buffer.
C16_FilledOnExit ==
    /\ [](\A t \in Owners :
             Active(t) =>
                 \A s \in succeeded :
                     s.ctx = context_id[t] =>
                         /\ InSeq(s, BufferOf(finished_spans, context_id[t]))
                         /\ ~InSeq(s, yielded[t]))
    /\ [][\A t \in Owners :
             /\ (yielded'[t] /= yielded[t] => (pc[t] = "extend" /\ pc'[t] = "done"))
             /\ ((pc[t] = "extend" /\ pc'[t] = "done") => yielded'[t] = result[t])]_vars

\* One owner has got its two spans in the yielded list on return, while the
\* other owner's block is active with one span in the buffer of its scope.
C16_Witness ==
    \E t, u \in Owners :
        /\ pc[t] = "done" /\ Len(yielded[t]) = 2
        /\ Active(u) /\ Len(BufferOf(finished_spans, context_id[u])) = 1

\* C17. The yielded list is empty at every point while the block is active,
\* whatever is exported under the scope meanwhile; it holds elements only after
\* context_subtree_spans has returned from a normal exit.
C17_EmptyUntilExit ==
    \A t \in Owners :
        /\ (Active(t) => yielded[t] = <<>>)
        /\ (yielded[t] /= <<>> => Returned(t))

\* An owner's block is active, two spans exported under its scope (one by the
\* thread of control it started) are in the buffer, and the yielded list is empty.
C17_Witness ==
    \E t \in Owners :
        /\ pc[t] = "body"
        /\ Len(BufferOf(finished_spans, context_id[t])) = 2
        /\ \E j \in 1..2 : BufferOf(finished_spans, context_id[t])[j].by \in Workers
        /\ yielded[t] = <<>>

\* The block of owner t has been left by an exception.
LeftByException(t) == pc[t] = "raised" \/ Exporting(t, "raised")

\* C29. After a context_subtree_spans block has been left by an exception raised
\* in its body, the exporter holds no buffer for the scope id of that block.
C29_NoBufferAfterException ==
    \A t \in Owners :
        LeftByException(t) => ~DictHas(finished_spans, context_id[t])

\* C30. Once shutdown has returned no scope buffer grows again: in every step
\* taken on a stopped exporter each buffer is at most as long as it was, also in
\* the steps of an export call that was in progress when shutdown ran.
C30_NoGrowthAfterShutdown ==
    [][stopped =>
          \A i \in 1..Len(finished_spans') :
              Len(finished_spans'[i].v)
                  <= Len(BufferOf(finished_spans, finished_spans'[i].k))]_vars

----------------------------------------------------------------------------
(* Properties of nested blocks *)

\* The blocks that have ended normally.
ClosedNormally == {closed[i] : i \in {j \in 1..Len(closed) : closed[j].how = "normal"}}

\* C24. Nested scopes do not merge: the scope current on the thread is always the
\* innermost active block (the outer one again after the inner block has ended),
\* every buffered span lies in the buffer of the block that was innermost when it
\* was exported and in no other, and every span exported inside a block is in
\* that block's buffer or in the list the block filled at its normal exit.
C24_NestedScopesDoNotMerge ==
    /\ ContextVarGet(ctxvar, NestThread) = InnermostScope(frames)
    /\ \A i \in 1..Len(finished_spans) :
           \A j \in 1..Len(finished_spans[i].v) :
               finished_spans[i].v[j].ctx = finished_spans[i].k
    /\ \A c \in ClosedNormally :
           \A j \in 1..Len(c.spans) : c.spans[j].ctx = c.context_id
    /\ \A s \in succeeded :
           (s.ctx /= None) =>
               \/ InSeq(s, BufferOf(finished_spans, s.ctx))
               \/ \E c \in ClosedNormally : c.context_id = s.ctx /\ InSeq(s, c.spans)

\* An outer block is active, an inner block has ended normally with one span, and
\* the outer buffer holds a span exported before the inner block and one
\* exported after it.
C24_Witness ==
    /\ Len(frames) = 1
    /\ \E c \in ClosedNormally :
           /\ c.token = frames[1].context_id
           /\ Len(c.spans) = 1
           /\ \E a, b \in 1..Len(BufferOf(finished_spans, frames[1].context_id)) :
                  /\ BufferOf(finished_spans, frames[1].context_id)[a].n < c.spans[1].n
                  /\ BufferOf(finished_spans, frames[1].context_id)[b].n > c.spans[1].n

----------------------------------------------------------------------------
(* Properties of the entry *)

\* C14. Configuration error is fail-fast: while the tracer provider has no
\* add_span_processor, every entry of context_subtree_spans raises TypeError
\* before the block body runs, no scope is made current, and no exporter is
\* created, registered or cached; a block body never runs without an exporter
\* that is registered with the provider.
C14_ConfigurationErrorFailFast ==
    \A t \in Owners :
        /\ a_pc[t] \in {"attached", "body"} =>
              /\ a_exporter[t] /= None
              /\ InSeq(a_exporter[t], processors)
        /\ ~provider_ok =>
              /\ a_pc[t] \in {"idle", "miss"}
              /\ a_raised[t] = a_entries[t] - (IF a_pc[t] = "miss" THEN 1 ELSE 0)
              /\ ContextVarGet(ctxvar, t) = None
              /\ n_created = 0 /\ processors = <<>> /\ cache = <<>>
              /\ a_exporter[t] = None

\* Without a provider, one thread of control has entered twice and the other
\* once, and every one of these entries has raised.
C14_Witness ==
    /\ ~provider_ok
    /\ \E t, u \in Owners :
          /\ t /= u
          /\ a_pc[t] = "idle" /\ a_entries[t] = 2 /\ a_raised[t] = 2
          /\ a_pc[u] = "idle" /\ a_entries[u] = 1 /\ a_raised[u] = 1

\* C18. The collection sink is attached exactly once per process: whatever the
\* number and the interleaving of the entries, at most one exporter is created
\* and registered with the tracer provider, and all entries use that exporter.
C18_AttachedExactlyOnce ==
    /\ n_created <= 1
    /\ Len(processors) <= 1
    /\ \A t, u \in Owners :
          (a_exporter[t] /= None /\ a_exporter[u] /= None) => a_exporter[t] = a_exporter[u]

----------------------------------------------------------------------------
(* Properties of the queries *)

\* The node that the record of node d names as its parent, if the tree has it.
ParentNode(d) ==
    IF DictHas(nodes_by_id, heap[d].span.parent_id)
    THEN DictGet(nodes_by_id, heap[d].span.parent_id)
    ELSE None

RECURSIVE AncestorsWithin(_, _)
\* The nodes reached from d by 1..k parent references.
AncestorsWithin(d, k) ==
    IF k = 0 \/ ParentNode(d) = None
    THEN {}
    ELSE {ParentNode(d)} \cup AncestorsWithin(ParentNode(d), k - 1)

ProperAncestors(d) == AncestorsWithin(d, Len(nodes_by_id))

\* The nodes of the tree that have n among their ancestors.
ProperDescendants(n) == {d \in Indexed : n \in ProperAncestors(d)}

\* C19. find_descendants(p) on a node n of the tree returns exactly the proper
\* descendants of n that satisfy p, each exactly once, and never n itself.
C19_FindDescendantsExact ==
    (q_pc = "done" /\ q_kind = "find_descendants") =>
        /\ \A d \in ProperDescendants(q_self) :
              Holds(q_pred, heap, d) => Occurrences(d, q_found) = 1
        /\ \A j \in 1..Len(q_found) :
              /\ q_found[j] \in ProperDescendants(q_self)
              /\ Holds(q_pred, heap, q_found[j])
              /\ Occurrences(q_found[j], q_found) = 1
        /\ ~InSeq(q_self, q_found)

\* C20. Queries are total on the trees the Builder produces: every query comes
\* to its end. The loops are deterministic walks over a finite set of nodes, so
\* a query comes to its end exactly if, going down, it never pops a node while
\* the descendants of an earlier pop of that node are still being worked through
\* and, going up, it never comes to a node it was at before.
C20_QueriesTerminate == ~q_repeat

RECURSIVE ReachWithin(_, _)
\* The nodes reached from the nodes of S through at most k children references.
ReachWithin(S, k) ==
    IF k = 0
    THEN S
    ELSE ReachWithin(S \cup {c \in Addrs : \E a \in S : InSeq(c, children(heap, a))}, k - 1)

\* The nodes reachable from roots through children.
Reachable == ReachWithin({roots[i] : i \in 1..Len(roots)}, Len(heap))

\* C28. After any sequence of add_spans calls every node reachable from roots
\* through children is the node nodes_by_id holds under its span_id, and no
\* span_id is reachable more than once: no two reachable nodes have the same
\* span_id, and no node occurs twice in roots or in one children list.
C28_ReachableAreRegistered ==
    ~raised =>
        /\ \A a \in Reachable :
               /\ DictHas(nodes_by_id, heap[a].span.span_id)
               /\ DictGet(nodes_by_id, heap[a].span.span_id) = a
        /\ \A a, b \in Reachable :
               (heap[a].span.span_id = heap[b].span.span_id) => a = b
        /\ \A a \in Reachable :
               /\ Occurrences(a, roots) <= 1
               /\ \A p \in Reachable : Occurrences(a, children(heap, p)) <= 1

\* What a tree is to its users: the span_ids of nodes_by_id in order with their
\* records, the span_ids of roots in order, and for every node of nodes_by_id
\* the span_ids of its children in order.
TreeShape(h, idx, rts) ==
    [ids      |-> [i \in 1..Len(idx) |-> idx[i].k],
     spans    |-> [i \in 1..Len(idx) |-> h[idx[i].v].span],
     roots    |-> [i \in 1..Len(rts) |-> h[rts[i]].span.span_id],
     children |-> [i \in 1..Len(idx) |->
                      [j \in 1..Len(children(h, idx[i].v)) |->
                          h[children(h, idx[i].v)[j]].span.span_id]]]

\* The tree built in one step from all the records supplied so far.
BatchBuilt == add_spans(<<>>, <<>>, <<>>, supplied)

\* C21. After any sequence of add_spans calls the tree is the tree built in one
\* step from the concatenation of the supplied lists: the same nodes_by_id
\* order, the same roots order, and for every node the same children in the
\* same order.
C21_IncrementalEqualsBatch ==
    (calls >= 1 /\ ~raised) =>
        \E b \in {BatchBuilt} :
            TreeShape(heap, nodes_by_id, roots) = TreeShape(b.heap, b.nodes_by_id, b.roots)

\* The place in the supplied list of the record that span_id k retains: the last
\* record with that span_id.
RetainedAt(k) ==
    CHOOSE i \in 1..Len(supplied) :
        /\ supplied[i].span_id = k
        /\ \A j \in (i + 1)..Len(supplied) : supplied[j].span_id /= k

\* C22. Ties are broken by input order: of two nodes with equal start times the
\* one whose retained record comes first in the input list comes first in
\* roots and in the children of a common parent, also when the list holds
\* earlier, overwritten records with the same span_id.
C22_TiesByInputOrder ==
    Built =>
        \A a, b \in Indexed :
            ( /\ a /= b
              /\ heap[a].span.start_time = heap[b].span.start_time
              /\ RetainedAt(heap[a].span.span_id) < RetainedAt(heap[b].span.span_id) )
            => /\ (InSeq(a, roots) /\ InSeq(b, roots))
                      => IndexOf(a, roots) < IndexOf(b, roots)
               /\ \A p \in Indexed :
                      (InSeq(a, children(heap, p)) /\ InSeq(b, children(heap, p)))
                          => IndexOf(a, children(heap, p)) < IndexOf(b, children(heap, p))

\* The predicate every node satisfies.
AlwaysTrue == SpanIds

\* C23. find_all with an always-true predicate returns every node of
\* nodes_by_id exactly once and nothing else (the nodes of flattened()): every
\* indexed node is reached from some root.
C23_FindAllReachesEveryNode ==
    (q_pc = "done" /\ q_kind = "find_all" /\ q_pred = AlwaysTrue) =>
        /\ \A a \in Indexed : Occurrences(a, q_found) = 1
        /\ \A j \in 1..Len(q_found) : q_found[j] \in Indexed

----------------------------------------------------------------------------
(* The find queries as functions of the tree: what a find call returns, and
   whether it returns *)

\* The nodes of a sequence.
NodesIn(seq) == {seq[i] : i \in 1..Len(seq)}

\* Node a is reached again from its own children.
OnChildCycle(a) == a \in ReachWithin(NodesIn(children(heap, a)), Len(heap))

\* `while stack:` started with the given stack comes to its end: no node that it
\* reaches is its own descendant.
WalkReturns(stack) ==
    \A a \in ReachWithin(NodesIn(stack), Len(heap)) : ~OnChildCycle(a)

RECURSIVE WalkFound(_, _, _)
\* `while stack:` of find_descendants and find_all: pop the last node, append
\* it to found if the predicate accepts it, push its children.
WalkFound(stack, found, p) ==
    IF stack = <<>>
    THEN found
    ELSE WalkFound(SubSeq(stack, 1, Len(stack) - 1) \o children(heap, stack[Len(stack)]),
                   IF Holds(p, heap, stack[Len(stack)])
                   THEN Append(found, stack[Len(stack)]) ELSE found,
                   p)

\* The call with the given first stack: whether it returns, and what.
WalkResult(stack, p) ==
    [returns |-> WalkReturns(stack),
     found   |-> IF WalkReturns(stack) THEN WalkFound(stack, <<>>, p) ELSE <<>>]

find_descendants(a, p) == WalkResult(descendants_start(heap, a), p)

find_all(p) == WalkResult(roots, p)

RECURSIVE UpReturns(_, _)
\* `while node:` comes to its end: the parent references from node lead to None
\* within as many steps as there are nodes.
UpReturns(node, k) ==
    \/ node = None
    \/ k > 0 /\ UpReturns(heap[node].parent, k - 1)

RECURSIVE UpFound(_, _, _)
\* `while node:` of find_ancestors: append the node to found if the predicate
\* accepts it, go on to its parent.
UpFound(node, found, p) ==
    IF node = None
    THEN found
    ELSE UpFound(heap[node].parent,
                 IF Holds(p, heap, node) THEN Append(found, node) ELSE found,
                 p)

find_ancestors(a, p) ==
    [returns |-> UpReturns(heap[a].parent, Len(heap)),
     found   |-> IF UpReturns(heap[a].parent, Len(heap))
                 THEN UpFound(heap[a].parent, <<>>, p) ELSE <<>>]

\* any_child, any_descendant, any_ancestor, any: first_X(predicate) is not None
any_of(first) == first /= None

----------------------------------------------------------------------------
(* Properties of the query families *)

\* The find call of the family of the query that has run, on the same node and
\* with the same predicate.
FindOfFamily ==
    CASE q_kind \in {"find_children", "first_child"} ->
             [returns |-> TRUE, found |-> find_children(heap, q_self, q_pred)]
      [] q_kind \in {"find_descendants", "first_descendant"} ->
             find_descendants(q_self, q_pred)
      [] q_kind \in {"find_ancestors", "first_ancestor"} ->
             find_ancestors(q_self, q_pred)
      [] q_kind \in {"find_all", "find_first"} ->
             find_all(q_pred)

FirstKinds == {"first_child", "first_descendant", "first_ancestor", "find_first"}

\* C25. In each query family first_X(p) is the first element of find_X(p), or
\* None when find_X(p) is empty, and any_X(p) is true exactly if find_X(p) is
\* not empty.
C25_FirstAndAnyAgreeWithFind ==
    (q_pc = "done" /\ q_kind \in FirstKinds) =>
        /\ FindOfFamily.returns
        /\ q_ret = (IF FindOfFamily.found = <<>> THEN None ELSE FindOfFamily.found[1])
        /\ any_of(q_ret) <=> (FindOfFamily.found /= <<>>)

RECURSIVE ChainWithin(_, _)
\* The proper ancestors of node d by the parent ids of the records, nearest
\* first, at most k of them.
ChainWithin(d, k) ==
    IF k = 0 \/ ParentNode(d) = None
    THEN <<>>
    ELSE <<ParentNode(d)>> \o ChainWithin(ParentNode(d), k - 1)

AncestorChain(d) == ChainWithin(d, Len(nodes_by_id))

\* The ancestors of the queried node that the predicate accepts, nearest first.
MatchingAncestors == SelectSeq(AncestorChain(q_self), LAMBDA a : Holds(q_pred, heap, a))

\* C26. find_ancestors(p) on node n returns exactly the proper ancestors of n
\* that satisfy p, nearest first, the chain of ancestors ending at a root of the
\* tree; first_ancestor(p) returns the nearest of them (None if there is none);
\* on a root both return nothing.
C26_FindAncestorsExact ==
    (q_pc = "done" /\ q_kind \in {"find_ancestors", "first_ancestor"}) =>
        /\ (q_kind = "find_ancestors") => q_found = MatchingAncestors
        /\ (q_kind = "first_ancestor") =>
               q_ret = (IF MatchingAncestors = <<>> THEN None ELSE MatchingAncestors[1])
        /\ (q_kind = "find_ancestors" /\ AncestorChain(q_self) /= <<>>) =>
               InSeq(AncestorChain(q_self)[Len(AncestorChain(q_self))], roots)
        /\ q_ret /= q_self /\ ~InSeq(q_self, q_found)
        /\ InSeq(q_self, roots) => (q_found = <<>> /\ q_ret = None)

\* Node s and the nodes reached from it through children.
Subtree(s) == ReachWithin({s}, Len(heap))

\* The nodes whose children the walk that has run pushes: the queried node and
\* its subtree, or the nodes reachable from roots for a tree-wide query.
Walked == IF q_kind = "find_all" THEN Reachable ELSE Subtree(q_self)

\* The pairs of siblings of the walk that has run, the earlier one in child
\* order first: two children of one node, or two roots for a tree-wide query.
SiblingPairs ==
    {<<children(heap, p)[i], children(heap, p)[j]>> :
        <<p, i, j>> \in {t \in Walked \X (1..Len(heap)) \X (1..Len(heap)) :
                            t[2] < t[3] /\ t[3] <= Len(children(heap, t[1]))}}
    \cup (IF q_kind = "find_all"
          THEN {<<roots[i], roots[j]>> :
                   <<i, j>> \in {t \in (1..Len(roots)) \X (1..Len(roots)) : t[1] < t[2]}}
          ELSE {})

\* C27. The results of find_descendants and find_all are in LIFO depth-first
\* order: every node comes after each of its ancestors that is in the result;
\* of two siblings (or two roots) the later one in child order, with its whole
\* subtree, comes before the earlier one and its subtree; so two children of
\* one node that are both in the result are never in child order.
C27_LifoDepthFirstOrder ==
    (q_pc = "done" /\ q_kind \in {"find_descendants", "find_all"}) =>
        /\ \A i, j \in 1..Len(q_found) :
               (q_found[i] \in ProperAncestors(q_found[j])) => i < j
        /\ \A sp \in SiblingPairs :
               \A x, y \in 1..Len(q_found) :
                   (q_found[x] \in Subtree(sp[1]) /\ q_found[y] \in Subtree(sp[2])) => y < x
        /\ \A sp \in SiblingPairs :
               \A x, y \in 1..Len(q_found) :
                   (q_found[x] = sp[1] /\ q_found[y] = sp[2]) => ~(x < y)

====
